---- MODULE Spec2Model ----
(***************************************************************************)
(* squid's SQL template tag (src/sql/index.ts): sql, sql.raw, sql.safe,    *)
(* spreadAnd, spreadInsert and spreadUpdate.                               *)
(*                                                                         *)
(* A text is a sequence of tokens (strings); concatenating texts is \o.    *)
(* A runtime value is a record tagged by its field t: a scalar, undefined, *)
(* a list, or one of the SqlBuilder variants. A record given to a spread   *)
(* helper is the sequence of its entries in insertion order.               *)
(*                                                                         *)
(* Record constructors list their fields in the order the names first      *)
(* occur in this module, the order in which TLC keeps them.                *)
(***************************************************************************)
EXTENDS Integers, Sequences, FiniteSets, TLC

VARIABLES
  builder,      \* the SqlBuilder the caller holds (the last one a spread helper returned)
  source,       \* the argument of the spread helper call that returned builder
  exprs,        \* the template expressions the caller has evaluated so far
  call,         \* the operation that ran last
  constructed,  \* the Query Object the last sql call built (line 46), before tracing
  returned,     \* what the last call returned
  thrown,       \* the error the last call raised
  traced,       \* the records the last sql call handed to debugQuery
  fragments     \* the buildSql calls the last sql call made: <<start, result>> each

vars == <<builder, source, exprs, call, constructed, returned, thrown, traced, fragments>>

----------------------------------------------------------------------------
(* Bounds and input domains *)

MaxExprs == 2      \* expressions per template
MaxRecords == 2    \* records per spreadInsert call

Scalars == {"alice", "bob"}
RawTexts == {"now()", "$1"}

Scalar(s) == [t |-> "scalar", v |-> s]
Undefined == [t |-> "undefined"]
List(items) == [t |-> "list", items |-> items]
Entry(name, value) == [name |-> name, value |-> value]

\* Records over the columns a and b: a is absent or set, b is absent, set or
\* present with the value undefined; and one record that names b before a.
RecordChoices ==
  { aPart \o bPart :
      aPart \in {<<>>, <<Entry("a", Scalar("alice"))>>},
      bPart \in {<<>>, <<Entry("b", Scalar("bob"))>>, <<Entry("b", Undefined)>>} }
    \cup { <<Entry("b", Scalar("bob")), Entry("a", Scalar("alice"))>> }

RecordLists == UNION { [1..n -> RecordChoices] : n \in 0..MaxRecords }

ListChoices == { List(<<>>), List(<<Scalar("alice"), Scalar("bob")>>) }

Nothing == [t |-> "nothing"]
NoError == [type |-> "none", column |-> ""]
TypeError(columnName) == [type |-> "TypeError", column |-> columnName]
SinkError == [type |-> "SinkError", column |-> ""]

\* A call either returns a value or raises an error.
Return(value) == [value |-> value, ok |-> TRUE, error |-> NoError]
Raise(error) == [value |-> Nothing, ok |-> FALSE, error |-> error]

\* The same for a serialization, whose value is {text, values}.
Ok(text, values) == [ok |-> TRUE, error |-> NoError, text |-> text, values |-> values]
Throw(error) == [ok |-> FALSE, error |-> error, text |-> <<>>, values |-> <<>>]

----------------------------------------------------------------------------
(* ../utils and ./builder *)

\* Array.prototype.join on a list of texts.
RECURSIVE join(_, _)
join(parts, sep) ==
  IF parts = <<>> THEN <<>>
  ELSE IF Len(parts) = 1 THEN parts[1]
  ELSE parts[1] \o (IF sep = "" THEN <<>> ELSE <<sep>>) \o join(Tail(parts), sep)

escapeIdentifier(name) == "\"" \o name \o "\""

filterUndefined(record) == SelectSeq(record, LAMBDA e : e.value.t # "undefined")

RECURSIVE appendNew(_, _)
appendNew(keys, record) ==
  IF record = <<>> THEN keys
  ELSE appendNew(IF \E i \in 1..Len(keys) : keys[i] = record[1].name
                 THEN keys ELSE Append(keys, record[1].name),
                 Tail(record))

RECURSIVE extractKeysFrom(_, _)
extractKeysFrom(keys, records) ==
  IF records = <<>> THEN keys
  ELSE extractKeysFrom(appendNew(keys, records[1]), Tail(records))

extractKeys(records) == extractKeysFrom(<<>>, records)

RECURSIVE mergeLists(_, _)
mergeLists(list1, list2) ==
  IF list1 = <<>> THEN list2
  ELSE <<list1[1]>> \o mergeLists(list2, Tail(list1))

placeholder(paramID) == "$" \o ToString(paramID)

rawSqlBuilder(rawValue) == [t |-> "raw", rawValue |-> rawValue]
paramSqlBuilder(value) == [t |-> "param", value |-> value]
mkSqlBuilder(fn) == [t |-> "builder", fn |-> fn]
isSqlBuilder(x) == x.t \in {"raw", "param", "builder"}

RECURSIVE buildSql(_, _)

\* The list rule: each element with the running index, joined by ", " in parentheses.
RECURSIVE listLoop(_, _, _, _, _)
listLoop(items, i, nextParamID, values, texts) ==
  IF i > Len(items) THEN Ok(<<"(">> \o join(texts, ", ") \o <<")">>, values)
  ELSE LET serialized == buildSql(items[i], nextParamID)
       IN IF ~serialized.ok THEN serialized
          ELSE listLoop(items, i + 1, nextParamID + Len(serialized.values),
                        values \o serialized.values, Append(texts, serialized.text))

----------------------------------------------------------------------------
(* src/sql/index.ts *)

rawExpression(rawValue) == rawSqlBuilder(rawValue)
safeExpression(value) == paramSqlBuilder(value)

\* andTerm with the column value written into the text instead of its
\* serialized form.
andTermInline(columnName, columnValue, serialized) ==
  <<escapeIdentifier(columnName), " = ">>
    \o (IF columnValue.t = "scalar" THEN <<columnValue.v>> ELSE serialized.text)

\* One term of spreadAnd's chain (line 89).
andTerm(columnName, columnValue, serialized) ==
  <<escapeIdentifier(columnName), " = ">> \o serialized.text

\* andAdvance without the increment.
andAdvanceStuck(nextParamID, serialized) == nextParamID

\* Line 88: nextParamID += serialized.values.length
andAdvance(nextParamID, serialized) == nextParamID + Len(serialized.values)

\* The map of lines 84-90, by index; values and nextParamID are the closure's locals.
RECURSIVE andLoop(_, _, _, _, _)
andLoop(columnValues, i, nextParamID, values, terms) ==
  IF i > Len(columnValues)
  THEN Ok(<<"(">> \o join(terms, " AND ") \o <<")">>, values)
  ELSE LET serialized == buildSql(columnValues[i].value, nextParamID)
       IN IF ~serialized.ok THEN serialized
          ELSE andLoop(columnValues, i + 1, andAdvance(nextParamID, serialized),
                       values \o serialized.values,
                       Append(terms, andTerm(columnValues[i].name, columnValues[i].value,
                                             serialized)))

\* spreadAndFragment with an always-true condition for an empty chain.
spreadAndFragmentTautology(columnValues, nextParamID) ==
  IF columnValues = <<>> THEN Ok(<<"(", "TRUE", ")">>, <<>>)
  ELSE andLoop(columnValues, 1, nextParamID, <<>>, <<>>)

spreadAndFragment(columnValues, nextParamID) ==
  andLoop(columnValues, 1, nextParamID, <<>>, <<>>)

\* Object.entries(filterUndefined(record)) is taken when spreadAnd is called.
spreadAnd(record) ==
  Return(mkSqlBuilder([name |-> "spreadAnd", columnValues |-> filterUndefined(record)]))

\* record[columnName]
lookup(record, columnName) ==
  IF \E i \in 1..Len(record) : record[i].name = columnName
  THEN record[CHOOSE i \in 1..Len(record) : record[i].name = columnName].value
  ELSE Undefined

\* isMissing without the check: an undefined value goes on to buildSql.
isMissingNever(columnValue) == FALSE

\* Line 117: typeof columnValue === "undefined"
isMissing(columnValue) == columnValue.t = "undefined"

\* Line 122: nextParamID += serialized.values.length
insertAdvance(nextParamID, serialized) == nextParamID + Len(serialized.values)

\* The inner map of lines 114-125: the cells of one record. The result carries
\* the closure's nextParamID and values on to the next record.
RECURSIVE insertCells(_, _, _, _, _, _)
insertCells(columns, record, j, nextParamID, values, cells) ==
  IF j > Len(columns)
  THEN [ok |-> TRUE, error |-> NoError, text |-> join(cells, ", "), values |-> values,
        nextParamID |-> nextParamID]
  ELSE LET columnValue == lookup(record, columns[j])
       IN IF isMissing(columnValue)
          THEN Throw(TypeError(columns[j]))
          ELSE LET serialized == buildSql(columnValue, nextParamID)
               IN IF ~serialized.ok THEN serialized
                  ELSE insertCells(columns, record, j + 1,
                                   insertAdvance(nextParamID, serialized),
                                   values \o serialized.values,
                                   Append(cells, serialized.text))

\* The outer map of lines 112-127.
RECURSIVE insertRows(_, _, _, _, _, _)
insertRows(columns, records, i, nextParamID, values, rows) ==
  IF i > Len(records) THEN Ok(join(rows, "), ("), values)
  ELSE LET row == insertCells(columns, records[i], 1, nextParamID, values, <<>>)
       IN IF ~row.ok THEN row
          ELSE insertRows(columns, records, i + 1, row.nextParamID, row.values,
                          Append(rows, row.text))

columnList(columns) ==
  join([j \in 1..Len(columns) |-> <<escapeIdentifier(columns[j])>>], ", ")

\* Lines 109-131: the text around the rows, once the rows are serialized.
insertText(columns, rows) ==
  IF ~rows.ok THEN rows
  ELSE Ok(<<"(">> \o columnList(columns) \o <<")">> \o <<" VALUES ">>
          \o <<"(">> \o rows.text \o <<")">>,
          rows.values)

\* spreadInsertFragment numbering from 1 whatever the start index.
spreadInsertFragmentFromOne(columns, records, nextParamID) ==
  insertText(columns, insertRows(columns, records, 1, 1, <<>>, <<>>))

spreadInsertFragment(columns, records, nextParamID) ==
  insertText(columns, insertRows(columns, records, 1, nextParamID, <<>>, <<>>))

\* spreadInsert checking the records when it is called.
spreadInsertEager(records) ==
  LET columns == extractKeys([i \in 1..Len(records) |-> filterUndefined(records[i])])
      missing == {c \in {columns[j] : j \in 1..Len(columns)} :
                    \E i \in 1..Len(records) : isMissing(lookup(records[i], c))}
  IN IF missing # {}
     THEN Raise(TypeError(CHOOSE c \in missing : TRUE))
     ELSE Return(mkSqlBuilder([name |-> "spreadInsert", records |-> records,
                               columns |-> columns]))

\* Line 105 runs when spreadInsert is called; the closure keeps columns and records.
spreadInsert(records) ==
  Return(mkSqlBuilder([name |-> "spreadInsert",
                       records |-> records,
                       columns |-> extractKeys([i \in 1..Len(records) |->
                                                  filterUndefined(records[i])])]))

\* One setter of spreadUpdate's chain (line 150).
updateTerm(columnName, columnValue, serialized) ==
  <<escapeIdentifier(columnName), " = ">> \o serialized.text

\* Line 149: nextParamID += serialized.values.length
updateAdvance(nextParamID, serialized) == nextParamID + Len(serialized.values)

RECURSIVE updateLoop(_, _, _, _, _)
updateLoop(updateValues, i, nextParamID, values, terms) ==
  IF i > Len(updateValues)
  THEN Ok(join(terms, ", "), values)
  ELSE LET serialized == buildSql(updateValues[i].value, nextParamID)
       IN IF ~serialized.ok THEN serialized
          ELSE updateLoop(updateValues, i + 1, updateAdvance(nextParamID, serialized),
                          values \o serialized.values,
                          Append(terms, updateTerm(updateValues[i].name,
                                                   updateValues[i].value, serialized)))

spreadUpdateFragment(updateValues, nextParamID) ==
  updateLoop(updateValues, 1, nextParamID, <<>>, <<>>)

\* spreadUpdate without filterUndefined.
spreadUpdateUnfiltered(record) ==
  Return(mkSqlBuilder([name |-> "spreadUpdate", updateValues |-> record]))

spreadUpdate(record) ==
  Return(mkSqlBuilder([name |-> "spreadUpdate", updateValues |-> filterUndefined(record)]))

----------------------------------------------------------------------------
(* ./builder: serialization *)

\* Calling the function a deferred builder wraps.
applyFn(fn, nextParamID) ==
  CASE fn.name = "spreadAnd"    -> spreadAndFragment(fn.columnValues, nextParamID)
    [] fn.name = "spreadInsert" -> spreadInsertFragment(fn.columns, fn.records, nextParamID)
    [] fn.name = "spreadUpdate" -> spreadUpdateFragment(fn.updateValues, nextParamID)

buildFragment(b, nextParamID) ==
  CASE b.t = "raw"     -> Ok(<<b.rawValue>>, <<>>)
    [] b.t = "param"   -> Ok(<<placeholder(nextParamID)>>, <<b.value>>)
    [] b.t = "builder" -> applyFn(b.fn, nextParamID)

buildSql(expression, nextParamID) ==
  IF isSqlBuilder(expression) THEN buildFragment(expression, nextParamID)
  ELSE IF expression.t = "list"
       THEN listLoop(expression.items, 1, nextParamID, <<>>, <<>>)
       ELSE buildFragment(paramSqlBuilder(expression), nextParamID)

----------------------------------------------------------------------------
(* sql, lines 33-53 *)

\* nextParamIDOf counting from 0.
nextParamIDFromZero(parameterValues) == Len(parameterValues)

\* Line 37
nextParamIDOf(parameterValues) == Len(parameterValues) + 1

\* The map of lines 36-44, by index. calls records each buildSql call made.
RECURSIVE sqlLoop(_, _, _, _, _)
sqlLoop(values, i, parameterValues, serializedValues, calls) ==
  IF i > Len(values)
  THEN [ok |-> TRUE, error |-> NoError, parameterValues |-> parameterValues,
        serializedValues |-> serializedValues, calls |-> calls]
  ELSE LET nextParamID == nextParamIDOf(parameterValues)
           serialized == buildSql(values[i], nextParamID)
           made == Append(calls, [start |-> nextParamID, result |-> serialized])
       IN IF ~serialized.ok
          THEN [ok |-> FALSE, error |-> serialized.error,
                parameterValues |-> parameterValues,
                serializedValues |-> serializedValues, calls |-> made]
          ELSE sqlLoop(values, i + 1, parameterValues \o serialized.values,
                       Append(serializedValues, serialized.text), made)

\* Lines 46-49
queryOf(texts, serializedValues, parameterValues) ==
  [text |-> join(mergeLists(texts, serializedValues), ""), values |-> parameterValues]

\* The literal segments of a template with n expressions.
Template(n) == [i \in 1..(n + 1) |-> <<"L" \o ToString(i - 1)>>]

----------------------------------------------------------------------------
(* The state machine *)

Init ==
  /\ builder = Nothing
  /\ source = Nothing
  /\ exprs = <<>>
  /\ call = "init"
  /\ constructed = Nothing
  /\ returned = Nothing
  /\ thrown = NoError
  /\ traced = <<>>
  /\ fragments = <<>>

\* A spread helper is called with args and ends as r says. The caller calls
\* it before writing the template that uses the builder, so a template holds
\* one spread builder, any number of times.
Construct(name, args, r) ==
  /\ exprs = <<>>
  /\ call' = name
  /\ IF r.ok
     THEN builder' = r.value /\ source' = args
     ELSE UNCHANGED <<builder, source>>
  /\ returned' = r.value
  /\ thrown' = r.error
  /\ constructed' = Nothing
  /\ traced' = <<>>
  /\ fragments' = <<>>
  /\ UNCHANGED exprs

SpreadAnd == \E record \in RecordChoices : Construct("spreadAnd", record, spreadAnd(record))

SpreadInsert == \E records \in RecordLists : Construct("spreadInsert", records, spreadInsert(records))

SpreadUpdate == \E record \in RecordChoices : Construct("spreadUpdate", record, spreadUpdate(record))

\* What the caller can write between ${ and }.
ExprChoices ==
  {Scalar("alice")} \cup ListChoices
    \cup {rawExpression(r) : r \in RawTexts}
    \cup {safeExpression(List(<<Scalar("alice"), Scalar("bob")>>))}
    \cup (IF builder = Nothing THEN {} ELSE {builder})

\* The caller evaluates one more expression of the template it is writing.
Interpolate ==
  /\ Len(exprs) < MaxExprs
  /\ \E e \in ExprChoices : exprs' = Append(exprs, e)
  /\ call' = "interpolate"
  /\ constructed' = Nothing
  /\ returned' = Nothing
  /\ thrown' = NoError
  /\ traced' = <<>>
  /\ fragments' = <<>>
  /\ UNCHANGED <<builder, source>>

\* debugQuery(query), line 51: what the sink does with the object it is handed.
tamper(query) == [query EXCEPT !.values = <<>>]

\* sql(texts, ...values) with the template the caller wrote, the whole call:
\* the map over the expressions, the Query Object, the trace, the return.
Sql(sinkModes) ==
  /\ call # "sql"
  /\ LET r == sqlLoop(exprs, 1, <<>>, <<>>, <<>>)
         query == queryOf(Template(Len(exprs)), r.serializedValues, r.parameterValues)
     IN /\ fragments' = r.calls
        /\ IF ~r.ok
           THEN /\ constructed' = Nothing
                /\ traced' = <<>>
                /\ returned' = Nothing
                /\ thrown' = r.error
           ELSE /\ constructed' = query
                /\ traced' = <<query>>
                /\ \E mode \in sinkModes :
                     CASE mode = "returns" -> returned' = query /\ thrown' = NoError
                       [] mode = "throws"  -> returned' = Nothing /\ thrown' = SinkError
                       [] mode = "mutates" -> returned' = tamper(query) /\ thrown' = NoError
  /\ call' = "sql"
  /\ UNCHANGED <<builder, source, exprs>>

\* The caller starts a new template.
NewTemplate ==
  /\ call = "sql"
  /\ exprs' = <<>>
  /\ call' = "init"
  /\ constructed' = Nothing
  /\ returned' = Nothing
  /\ thrown' = NoError
  /\ traced' = <<>>
  /\ fragments' = <<>>
  /\ UNCHANGED <<builder, source>>

\* The debug package's logger returns normally and leaves its argument alone.
SqlDebug == Sql({"returns"})

\* Any logging collaborator.
SqlAnySink == Sql({"returns", "throws", "mutates"})

Next == SpreadAnd \/ SpreadInsert \/ SpreadUpdate \/ Interpolate \/ SqlDebug \/ NewTemplate

Spec == Init /\ [][Next]_vars

NextSink == SpreadAnd \/ SpreadInsert \/ SpreadUpdate \/ Interpolate \/ SqlAnySink \/ NewTemplate

SpecSink == Init /\ [][NextSink]_vars

----------------------------------------------------------------------------
(* Vocabulary of the properties *)

\* The text as the one string the caller receives.
RECURSIVE Str(_)
Str(text) == IF text = <<>> THEN "" ELSE text[1] \o Str(Tail(text))

\* The tokens that read as positional placeholders: no query of the model
\* binds more than MaxExprs * 2 * MaxRecords values (two columns per record).
PlaceholderTokens == {"$" \o ToString(k) : k \in 0..(MaxExprs * 2 * MaxRecords + 1)}

\* The placeholders of a text, in order.
PlaceholdersIn(text) == SelectSeq(text, LAMBDA tok : tok \in PlaceholderTokens)

\* $s, $s+1, ..., $s+n-1
Numbered(s, n) == [k \in 1..n |-> "$" \o ToString(s + k - 1)]

Occurrences(text, tok) == Cardinality({i \in 1..Len(text) : text[i] = tok})

RECURSIVE Concat(_)
Concat(seqs) == IF seqs = <<>> THEN <<>> ELSE seqs[1] \o Concat(Tail(seqs))

\* The entries of a record that have a value.
Defined(record) == SelectSeq(record, LAMBDA e : e.value # Undefined)
ValuesOf(entries) == [k \in 1..Len(entries) |-> entries[k].value]
KeysOf(entries) == {entries[k].name : k \in 1..Len(entries)}

\* The columns that have a value in some record, and whether a record lacks one.
UnionColumns(records) == UNION {KeysOf(Defined(records[i])) : i \in 1..Len(records)}
Lacks(record, c) == c \notin KeysOf(Defined(record))
Incomplete(records) ==
  \E i \in 1..Len(records) : \E c \in UnionColumns(records) : Lacks(records[i], c)

\* The value a record gives a column it has.
ValueAt(record, c) == record[CHOOSE k \in 1..Len(record) : record[k].name = c].value

IsSpread(e, name) == e.t = "builder" /\ e.fn.name = name
IsAnySpread(e) == e.t = "builder"

\* The values an expression binds, in reading order (what a raw fragment
\* carries is text, not a value).
RECURSIVE Bound(_)
Bound(e) ==
  CASE e.t = "raw" -> <<>>
    [] e.t = "param" -> <<e.value>>
    [] e.t = "list" -> Concat([k \in 1..Len(e.items) |-> Bound(e.items[k])])
    [] IsSpread(e, "spreadAnd") -> ValuesOf(e.fn.columnValues)
    [] IsSpread(e, "spreadUpdate") -> ValuesOf(e.fn.updateValues)
    [] IsSpread(e, "spreadInsert") ->
         Concat([i \in 1..Len(e.fn.records) |->
                   [j \in 1..Len(e.fn.columns) |-> ValueAt(e.fn.records[i], e.fn.columns[j])]])
    [] OTHER -> <<e>>

BoundAll(es) == Concat([k \in 1..Len(es) |-> Bound(es[k])])

\* The texts of the raw fragments among the expressions.
RECURSIVE RawIn(_)
RawIn(e) ==
  CASE e.t = "raw" -> {e.rawValue}
    [] e.t = "list" -> UNION {RawIn(e.items[k]) : k \in 1..Len(e.items)}
    [] OTHER -> {}

RawInAll(es) == UNION {RawIn(es[k]) : k \in 1..Len(es)}

\* How a value would read if it were written into the text.
RECURSIVE Literals(_)
Literals(v) ==
  CASE v.t = "scalar" -> {v.v}
    [] v.t = "list" -> UNION {Literals(v.items[k]) : k \in 1..Len(v.items)}
    [] OTHER -> {}

SqlReturned == call = "sql" /\ returned # Nothing
SqlRaised == call = "sql" /\ returned = Nothing

----------------------------------------------------------------------------
(* C1 *)

\* C1 as stated: in every Query Object sql returns, the placeholders of text are
\* exactly $1..$k with k = values.length, each occurring once.
C1_AsStated ==
  SqlReturned =>
    LET k == Len(returned.values)
        found == PlaceholdersIn(returned.text)
    IN /\ {found[i] : i \in 1..Len(found)} = {"$" \o ToString(i) : i \in 1..k}
       /\ Len(found) = k

NoPlaceholderInRaw(es) == \A r \in RawInAll(es) : PlaceholdersIn(<<r>>) = <<>>

\* C1: when no sql.raw fragment of the call is itself placeholder text, the
\* placeholders of the returned text are $1, $2, ..., $k in this order, each
\* once, with k = values.length, and values[k] is the k-th value the expressions
\* bind, in reading order.
C1_PlaceholdersMatchValues ==
  (SqlReturned /\ NoPlaceholderInRaw(exprs)) =>
    /\ PlaceholdersIn(returned.text) = Numbered(1, Len(returned.values))
    /\ returned.values = BoundAll(exprs)

\* A returned query that mixes a raw fragment and a spread builder binding two values.
C1_Witness ==
  /\ SqlReturned
  /\ NoPlaceholderInRaw(exprs)
  /\ \E i, j \in 1..Len(exprs) :
       /\ exprs[i].t = "raw"
       /\ IsAnySpread(exprs[j])
       /\ Len(Bound(exprs[j])) >= 2

----------------------------------------------------------------------------
(* C2 *)

\* The start index of expression i by the reference algorithm: 1 plus the
\* number of values expressions 1..i-1 returned.
RECURSIVE RefStart(_, _)
RefStart(es, i) ==
  IF i = 1 THEN 1
  ELSE RefStart(es, i - 1) + Len(buildSql(es[i - 1], RefStart(es, i - 1)).values)

RECURSIVE RefText(_, _, _)
RefText(texts, es, i) ==
  IF i = 0 THEN texts[1]
  ELSE RefText(texts, es, i - 1) \o buildSql(es[i], RefStart(es, i)).text \o texts[i + 1]

RECURSIVE RefValues(_, _)
RefValues(es, i) ==
  IF i = 0 THEN <<>>
  ELSE RefValues(es, i - 1) \o buildSql(es[i], RefStart(es, i)).values

\* C2: sql serializes expression i with start index 1 + (values of expressions
\* 1..i-1), returns the text L0 + text(E1) + L1 + ... + text(En) + Ln and the
\* concatenation of the values; an expression that returns no value leaves the
\* start index of the next one where it was.
C2_ReferenceAlgorithm ==
  SqlReturned =>
    /\ Len(fragments) = Len(exprs)
    /\ \A i \in 1..Len(exprs) : fragments[i].start = RefStart(exprs, i)
    /\ \A i \in 1..(Len(exprs) - 1) :
         fragments[i].result.values = <<>> => fragments[i + 1].start = fragments[i].start
    /\ returned.text = RefText(Template(Len(exprs)), exprs, Len(exprs))
    /\ returned.values = RefValues(exprs, Len(exprs))

\* An expression that consumes nothing, then one that binds a value at $1.
C2_Witness ==
  /\ SqlReturned
  /\ Len(exprs) = 2
  /\ exprs[1] \in {List(<<>>), rawExpression("now()")}
  /\ fragments[2].start = 1
  /\ fragments[2].result.values # <<>>

----------------------------------------------------------------------------
(* C3 *)

\* C3: in the text sql returns, no token is the written form of a value the
\* expressions bind (a scalar, a list element, a sql.safe value, a column value
\* of a spread record); each such value is an entry of values.
C3_InjectionSafety ==
  SqlReturned =>
    LET bound == BoundAll(exprs)
    IN \A k \in 1..Len(bound) :
         /\ \A lit \in Literals(bound[k]) : Occurrences(returned.text, lit) = 0
         /\ \E j \in 1..Len(returned.values) : returned.values[j] = bound[k]

\* A returned query binding a scalar, and column values through a spread builder.
C3_Witness ==
  /\ SqlReturned
  /\ \E i, j \in 1..Len(exprs) :
       /\ exprs[i].t \in {"scalar", "list", "param"}
       /\ Bound(exprs[i]) # <<>>
       /\ IsAnySpread(exprs[j])
       /\ Bound(exprs[j]) # <<>>

----------------------------------------------------------------------------
(* C4 *)

\* C4: a spread builder serialized with start index s returns n values, in
\* entry order (row by row for spreadInsert), and its placeholders are
\* $s, ..., $s+n-1 in this order; s is 1 + the number of parameters before it
\* and the next expression starts at s + n.
C4_NestedComposition ==
  call = "sql" =>
    \A i \in 1..Len(fragments) :
      (IsAnySpread(exprs[i]) /\ fragments[i].result.ok) =>
        LET s == fragments[i].start
            r == fragments[i].result
            n == Len(r.values)
        IN /\ r.values = Bound(exprs[i])
           /\ PlaceholdersIn(r.text) = Numbered(s, n)
           /\ s = 1 + Len(Concat([j \in 1..(i - 1) |-> fragments[j].result.values]))
           /\ i < Len(fragments) => fragments[i + 1].start = s + n

\* A two-row spreadInsert interpolated after two parameters: it starts at $3.
C4_Witness ==
  /\ SqlReturned
  /\ Len(exprs) = 2
  /\ IsSpread(exprs[2], "spreadInsert")
  /\ Len(exprs[2].fn.records) = 2
  /\ fragments[2].start = 3
  /\ Len(fragments[2].result.values) = 4

----------------------------------------------------------------------------
(* C5 *)

\* The first column, row by row, that a record has no value for.
FirstLacking(columns, records) ==
  LET i == CHOOSE i \in 1..Len(records) :
             /\ \E c \in UnionColumns(records) : Lacks(records[i], c)
             /\ \A h \in 1..(i - 1) : \A c \in UnionColumns(records) : ~Lacks(records[h], c)
      j == CHOOSE j \in 1..Len(columns) :
             /\ Lacks(records[i], columns[j])
             /\ \A h \in 1..(j - 1) : ~Lacks(records[i], columns[h])
  IN columns[j]

UsesBuilder == \E i \in 1..Len(exprs) : exprs[i] = builder

\* C5: a sql call that interpolates a spreadInsert builder one of whose records
\* (earlier or later) has no value for a column another record has raises the
\* missing-column error naming such a column, and builds, traces and returns no
\* Query Object.
C5_MissingColumnFails ==
  (call = "sql" /\ UsesBuilder /\ IsSpread(builder, "spreadInsert") /\ Incomplete(source)) =>
    /\ returned = Nothing
    /\ constructed = Nothing
    /\ traced = <<>>
    /\ thrown.type = "TypeError"
    /\ thrown.column \in UnionColumns(source)
    /\ thrown.column = FirstLacking(builder.fn.columns, source)
    /\ \E i \in 1..Len(source) : Lacks(source[i], thrown.column)

\* spreadInsert({a, b}, {a}) inside sql: the error names b.
C5_Witness ==
  /\ call = "sql"
  /\ UsesBuilder
  /\ IsSpread(builder, "spreadInsert")
  /\ source = << <<Entry("a", Scalar("alice")), Entry("b", Scalar("bob"))>>,
                 <<Entry("a", Scalar("alice"))>> >>
  /\ thrown = TypeError("b")
  /\ returned = Nothing

----------------------------------------------------------------------------
(* C6 *)

\* C6 as stated: spreadInsert called with records of which one lacks a column
\* of another raises the error in that call and returns no builder.
C6_AsStated ==
  (call = "spreadInsert" /\ Incomplete(source)) =>
    (thrown.type = "TypeError" /\ returned = Nothing)

\* C6: spreadInsert returns a SqlBuilder for any records and raises nothing;
\* the missing-column error is raised when the builder is serialized, in the
\* sql call that interpolates it, before a Query Object exists.
C6_RaisedWhenSerialized ==
  /\ call = "spreadInsert" =>
       (thrown = NoError /\ returned = builder /\ IsSpread(returned, "spreadInsert"))
  /\ (call = "sql" /\ IsSpread(builder, "spreadInsert") /\ Incomplete(source)) =>
       \A i \in 1..Len(exprs) :
         (exprs[i] = builder /\ \A h \in 1..(i - 1) : exprs[h] # builder) =>
           /\ Len(fragments) = i
           /\ ~fragments[i].result.ok
           /\ thrown = fragments[i].result.error
           /\ thrown.type = "TypeError"
           /\ constructed = Nothing

\* The builder of incomplete records was returned, and the sql call that
\* serialized it as its second expression raised.
C6_Witness ==
  /\ call = "sql"
  /\ IsSpread(builder, "spreadInsert")
  /\ Incomplete(source)
  /\ Len(exprs) = 2
  /\ exprs[1] # builder
  /\ exprs[2] = builder
  /\ thrown.type = "TypeError"

----------------------------------------------------------------------------
(* C7 *)

RECURSIVE Chain(_, _, _)
Chain(entries, s, sep) ==
  IF entries = <<>> THEN ""
  ELSE "\"" \o entries[1].name \o "\" = $" \o ToString(s)
         \o (IF Len(entries) = 1 THEN "" ELSE sep \o Chain(Tail(entries), s + 1, sep))

\* C7: spreadAnd and spreadUpdate serialize one `column = placeholder` term per
\* entry that has a value, in record order, and nothing for an entry whose
\* value is undefined: spreadUpdate joins the terms with ", ", spreadAnd with
\* " AND " inside one pair of parentheses, and values holds the defined values.
C7_UndefinedDropped ==
  call = "sql" =>
    \A i \in 1..Len(fragments) :
      LET s == fragments[i].start
          r == fragments[i].result
          kept == Defined(source)
      IN /\ (exprs[i] = builder /\ IsSpread(builder, "spreadUpdate")) =>
              /\ r.ok
              /\ Str(r.text) = Chain(kept, s, ", ")
              /\ r.values = ValuesOf(kept)
              /\ Len(r.values) = Len(kept)
         /\ (exprs[i] = builder /\ IsSpread(builder, "spreadAnd")) =>
              /\ r.ok
              /\ Str(r.text) = "(" \o Chain(kept, s, " AND ") \o ")"
              /\ r.values = ValuesOf(kept)
              /\ Len(r.values) = Len(kept)

\* spreadUpdate({a: "alice", b: undefined}): a setter for a only, one parameter.
C7_Witness ==
  /\ SqlReturned
  /\ IsSpread(builder, "spreadUpdate")
  /\ source = <<Entry("a", Scalar("alice")), Entry("b", Undefined)>>
  /\ Len(exprs) = 1
  /\ exprs[1] = builder
  /\ Str(fragments[1].result.text) = "\"a\" = $1"
  /\ fragments[1].result.values = <<Scalar("alice")>>

----------------------------------------------------------------------------
(* C9 *)

\* C9 as stated: a sql call that built a Query Object handed exactly that
\* object to the sink once and returned it, whatever the sink did.
C9_AsStated ==
  (call = "sql" /\ constructed # Nothing) =>
    /\ traced = <<constructed>>
    /\ thrown = NoError
    /\ returned = constructed

----------------------------------------------------------------------------
(* C10 *)

NoDefinedEntry(record) == Defined(record) = <<>>

\* C10: a spread builder made from a record without a defined entry
\* serializes without error and without values, to "()" for spreadAnd, to ""
\* for spreadUpdate and to "() VALUES ()" for spreadInsert of one such record,
\* and the next expression starts at the same index.
C10_DegenerateFragments ==
  call = "sql" =>
    \A i \in 1..Len(fragments) :
      LET r == fragments[i].result
          degenerate ==
            IF IsSpread(builder, "spreadInsert")
            THEN Len(source) = 1 /\ NoDefinedEntry(source[1])
            ELSE NoDefinedEntry(source)
      IN (exprs[i] = builder /\ degenerate) =>
           /\ r.ok
           /\ r.values = <<>>
           /\ Str(r.text) = (CASE IsSpread(builder, "spreadAnd") -> "()"
                               [] IsSpread(builder, "spreadUpdate") -> ""
                               [] IsSpread(builder, "spreadInsert") -> "() VALUES ()")
           /\ i < Len(exprs) =>
                (Len(fragments) > i /\ fragments[i + 1].start = fragments[i].start)

\* spreadAnd({b: undefined}) followed by a scalar, which is bound at $1.
C10_Witness ==
  /\ SqlReturned
  /\ IsSpread(builder, "spreadAnd")
  /\ source = <<Entry("b", Undefined)>>
  /\ exprs = <<builder, Scalar("alice")>>
  /\ Str(returned.text) = "L0()L1$1L2"
  /\ returned.values = <<Scalar("alice")>>

====
